---- MODULE Spec2Model ----
(***************************************************************************)
(* Authentication and session lifecycle of the rugalika backend:          *)
(* AuthService (one-time codes, JWT issuance/verification, logout and      *)
(* blacklist), the OTPCode and TokenBlacklist collections, and the         *)
(* authenticate middleware.  Every "await" of a handler is a point where   *)
(* another request may run, so a handler is one action per storage         *)
(* round trip.                                                             *)
(*                                                                         *)
(* Time: `now' counts Date.now() in model milliseconds; a JWT second is    *)
(* MsPerSec model milliseconds.  Lifetimes are scaled down but keep their  *)
(* order (code < access token < refresh token).                            *)
(***************************************************************************)
EXTENDS Integers, FiniteSets, Sequences, TLC

\* ---------------------------------------------------------------- bounds
MaxTime == 3
MaxOtp == 2
MaxBlacklist == 2
MaxMint == 2
\* largest maxRequests a rate limiter is created with
MaxRate == 2

\* ------------------------------------------------------ program constants
MsPerSec == 2
OtpLifetimeMs == 2
JwtExpireSec == 1
JwtRefreshExpireSec == 2
ResetExpireSec == 1
DuplicateKey == 11000

jwtSecret == "your_jwt_secret_here"
jwtRefreshSecret == "your_refresh_secret_here"

Procs == {"p1", "p2"}
Codes == {"111111", "222222"}
RawEmails == {"A@B.rw", "x@y.rw"}
UserIds == {"u1"}
NoToken == [type |-> "none", sub |-> "none", exp |-> 0, key |-> "none"]

\* mails counts the calls of emailService.sendOTPEmail; refreshed holds the
\* refresh tokens that have already bought a new access token
\* limiter: the parameters of the userRateLimit middleware once it is
\* created; userRequests: its Map from user id to { count, resetTime }
VARIABLES now, users, otpCodes, otpSeq, mails, blacklist, blSeq, minted,
          calls, last, okCount, loggedOut, refreshed, limiter, userRequests

vars == <<now, users, otpCodes, otpSeq, mails, blacklist, blSeq, minted,
          calls, last, okCount, loggedOut, refreshed, limiter, userRequests>>

\* String.prototype.toLowerCase / the schema's lowercase setter
ToLower(e) == IF e = "A@B.rw" THEN "a@b.rw" ELSE e

\* mutant: the email is not part of the filter
UserFindByAnyEmail(e) == UserIds

\* mutant: the query still matches a user whose document has been deleted
UserFindByEmailDeleted(e) == {u \in UserIds : users[u].email = ToLower(e)}

\* User.findOne({ email }) : the set of matching user ids
UserFindByEmail(e) ==
  {u \in UserIds : users[u].stored /\ users[u].email = ToLower(e)}

\* mutant: the lookup still finds a user whose document has been deleted
UserFindByIdDeleted(id) == {u \in UserIds : u = id}

\* User.findById(id)
UserFindById(id) == {u \in UserIds : users[u].stored /\ u = id}

\* ------------------------------------------------------ OTPCode collection
\* new OTPCode({email, code, expiresAt}) then save(): the schema lower-cases
\* the email, defaults verified to false and stamps createdAt
OtpInsert(coll, id, email, code, expiresAt, t) ==
  coll \cup {[id |-> id, email |-> ToLower(email), code |-> code,
              expiresAt |-> expiresAt, verified |-> FALSE, createdAt |-> t]}

\* mutant: the filter is compared as typed, without the lowercase setter
OtpDeleteManyRaw(coll, email) ==
  {d \in coll : ~(d.email = email /\ d.verified = FALSE)}

\* OTPCode.deleteMany({ email, verified: false })
OtpDeleteMany(coll, email) ==
  {d \in coll : ~(d.email = ToLower(email) /\ d.verified = FALSE)}

\* mutant: expiresAt compared with $gte
OtpFindOneGte(coll, email, code, t) ==
  {d \in coll : /\ d.email = ToLower(email)
                /\ d.code = code
                /\ d.verified = FALSE
                /\ d.expiresAt >= t}

\* mutant: the code is not part of the filter
OtpFindOneAnyCode(coll, email, code, t) ==
  {d \in coll : /\ d.email = ToLower(email)
                /\ d.verified = FALSE
                /\ d.expiresAt > t}

\* mutant: the verified flag is not part of the filter
OtpFindOneAnyVerified(coll, email, code, t) ==
  {d \in coll : /\ d.email = ToLower(email)
                /\ d.code = code
                /\ d.expiresAt > t}

\* OTPCode.findOne({ email, code, verified: false, expiresAt: { $gt: t } })
OtpFindOne(coll, email, code, t) ==
  {d \in coll : /\ d.email = ToLower(email)
                /\ d.code = code
                /\ d.verified = FALSE
                /\ d.expiresAt > t}

\* otpCode.verified = true; otpCode.save()  (an update by _id)
OtpMarkVerified(coll, id) ==
  {IF d.id = id THEN [d EXCEPT !.verified = TRUE] ELSE d : d \in coll}

\* expiresAt = new Date(Date.now() + 5 * 60 * 1000)
OtpExpiresAt(t) == t + OtpLifetimeMs

\* the codes of an email that are neither consumed nor expired at time t
ActiveCodes(coll, email, t) ==
  {d \in coll : d.email = email /\ d.verified = FALSE /\ d.expiresAt > t}

\* the unconsumed records of (email, code) exist and each was created
\* OtpLifetimeMs or more before t
IssuedLongAgo(coll, email, code, t) ==
  LET same == {d \in coll : /\ d.email = ToLower(email)
                            /\ d.code = code
                            /\ d.verified = FALSE}
  IN  same # {} /\ \A d \in same : t >= d.createdAt + OtpLifetimeMs

\* what a presented (email, code) pair is to the collection at time t, given
\* the number of codes ever issued for the email: an unconsumed, unexpired
\* record ("match"), or one of the four ways of not being one
CodeCase(coll, email, code, t, issued) ==
  LET same == {d \in coll : d.email = ToLower(email) /\ d.code = code}
  IN  IF \E d \in same : ~d.verified /\ d.expiresAt > t THEN "match"
      ELSE IF issued = 0 THEN "never"
      ELSE IF \E d \in same : d.verified THEN "consumed"
      ELSE IF \E d \in same : d.expiresAt <= t THEN "expired"
      ELSE "wrong"

\* what an email is to the user directory: no user has it ("nouser"), its
\* user is not active ("inactive"), or its user is active ("active")
UserCase(e) ==
  LET same == {u \in UserIds : users[u].stored /\ users[u].email = ToLower(e)}
  IN  IF same = {} THEN "nouser"
      ELSE IF \E u \in same : users[u].status # "active" THEN "inactive"
      ELSE "active"

\* what a user id is to the user directory
UserIdCase(id) ==
  IF \A u \in UserIds : users[u].stored => u # id THEN "nouser"
  ELSE IF users[id].status # "active" THEN "inactive"
  ELSE "active"

\* ------------------------------------------------------------ call records
Idle == [op |-> "idle", pc |-> "idle", email |-> "", code |-> "",
         tok |-> NoToken, rtok |-> NoToken, doc |-> 0, user |-> "none",
         res |-> "none", ok |-> FALSE, flag |-> FALSE, at |-> 0,
         cls |-> "none", seen |-> <<>>, arg |-> NoToken, who |-> "none",
         resource |-> "", action |-> "", roles |-> {}]

Finish(c, ok, res) == [c EXCEPT !.pc = "done", !.ok = ok, !.res = res]

\* the handler has carried out the check named what
Saw(c, what) == [c EXCEPT !.seen = Append(@, what)]

\* whether the blacklist holds an unexpired record of the token at time t
RevokedCase(coll, tok, t) ==
  IF \E r \in coll : r.token = tok /\ r.expiresAt > t THEN "revoked"
  ELSE "clear"

\* the promise of the handler rejects with Error(msg)
Raise(c, msg) == [c EXCEPT !.pc = "thrown", !.res = msg]

\* ---------------------------------------------------------------- tokens
\* Math.floor(Date.now() / 1000), the clock of jsonwebtoken
NowSec(t) == t \div MsPerSec

\* jwt.sign(payload, key, { expiresIn }): HS256 is deterministic, so a token
\* is its payload (type, userId, exp; iat = exp - lifetime) and signing key
JwtSign(type, sub, key, lifetimeSec, t) ==
  [type |-> type, sub |-> sub, exp |-> NowSec(t) + lifetimeSec, key |-> key]

\* jwt.verify(token, key): TRUE when it returns the payload, FALSE when it
\* throws (malformed, bad signature, clockTimestamp >= exp)
JwtVerify(tok, key, t) ==
  /\ tok.type # "garbage"
  /\ tok.key = key
  /\ NowSec(t) < tok.exp

\* jwt.decode(token) returned a payload carrying a truthy exp
JwtDecodable(tok) == tok.type # "garbage" /\ tok.exp # 0

generateAccessToken(u, t) == JwtSign("access", u, jwtSecret, JwtExpireSec, t)

\* mutant: the refresh token signed with the access secret
generateRefreshTokenAccessKey(u, t) ==
  JwtSign("refresh", u, jwtSecret, JwtRefreshExpireSec, t)

generateRefreshToken(u, t) ==
  JwtSign("refresh", u, jwtRefreshSecret, JwtRefreshExpireSec, t)

generatePasswordResetToken(u, t) ==
  JwtSign("password_reset", u, jwtSecret, ResetExpireSec, t)

verifyAccessToken(tok, t) == JwtVerify(tok, jwtSecret, t)

verifyRefreshToken(tok, t) == JwtVerify(tok, jwtRefreshSecret, t)

\* mutant: the type claim is not read
verifyPasswordResetTokenAnyKind(tok, t) == JwtVerify(tok, jwtSecret, t)

verifyPasswordResetToken(tok, t) ==
  JwtVerify(tok, jwtSecret, t) /\ tok.type = "password_reset"

\* tokens a client can present that the service never signed
Garbage == [type |-> "garbage", sub |-> "none", exp |-> 0, key |-> "none"]
Forged == [type |-> "access", sub |-> "u1", exp |-> 1, key |-> "forged"]
ForeignTokens == {Garbage, Forged}

\* ----------------------------------------------- TokenBlacklist collection
\* mutant: the exp claim, in seconds, taken as milliseconds
BlExpiresAtSeconds(tok) == tok.exp

\* expiresAt = new Date(decoded.exp * 1000)
BlExpiresAt(tok) == tok.exp * MsPerSec

\* the token already has a record
BlDuplicate(coll, tok) == \E r \in coll : r.token = tok

\* the error code of save(): the unique index on token raises E11000
BlSaveError(coll, tok) == IF BlDuplicate(coll, tok) THEN DuplicateKey ELSE 0

\* mutant: every token of the same subject is blacklisted with the one
\* presented
BlInsertSession(coll, id, tok, expiresAt) ==
  coll \cup {[id |-> id, token |-> t, expiresAt |-> expiresAt] :
               t \in {tok} \cup {m \in minted : m.sub = tok.sub}}

\* new TokenBlacklist({token, expiresAt}).save()
BlInsert(coll, id, tok, expiresAt) ==
  IF BlSaveError(coll, tok) # 0 THEN coll
  ELSE coll \cup {[id |-> id, token |-> tok, expiresAt |-> expiresAt]}

\* mutant: the duplicate-key error is rethrown like any other
IgnoredNoSaveError(code) == FALSE

\* if (error.code !== 11000) throw error
IgnoredSaveError(code) == code = DuplicateKey

\* mutant: the blacklist is not consulted
isTokenBlacklistedNever(coll, tok, t) == FALSE

\* mutant: expiresAt compared with $gte
isTokenBlacklistedGte(coll, tok, t) ==
  \E r \in coll : r.token = tok /\ r.expiresAt >= t

\* TokenBlacklist.findOne({ token, expiresAt: { $gt: t } }) found a record
isTokenBlacklisted(coll, tok, t) ==
  \E r \in coll : r.token = tok /\ r.expiresAt > t

\* mutant: expiresAt compared with $lt
RefreshBlacklistedLt(coll, tok, t) ==
  \E r \in coll : r.token = tok /\ r.expiresAt < t

\* TokenBlacklist.findOne({ token: refreshToken, expiresAt: { $gt: t } })
\* of refreshAccessToken found a record
RefreshBlacklisted(coll, tok, t) ==
  \E r \in coll : r.token = tok /\ r.expiresAt > t

\* what a presented refresh token is at time t: not a service-signed,
\* unexpired refresh token ("invalid"), one with an unexpired blacklist
\* record ("revoked"), one that has bought an access token before ("reused")
\* or one that has not ("fresh")
RefreshCase(tok, t) ==
  IF ~(tok \in minted /\ tok.type = "refresh" /\ NowSec(t) < tok.exp)
    THEN "invalid"
  ELSE IF \E r \in blacklist : r.token = tok /\ r.expiresAt > t
    THEN "revoked"
  ELSE IF tok \in refreshed THEN "reused"
  ELSE "fresh"

\* mutant: expiresAt compared with $lt
cleanExpiredLt(coll, t) == {r \in coll : ~(r.expiresAt < t)}

\* mutant: the comparison is turned round and deletes the unexpired records
cleanExpiredGte(coll, t) == {r \in coll : ~(r.expiresAt >= t)}

\* TokenBlacklist.deleteMany({ expiresAt: { $lte: t } })
cleanExpired(coll, t) == {r \in coll : ~(r.expiresAt <= t)}

\* ------------------------------------------------------------------- Init
Init ==
  /\ now = 0
  /\ users = [u \in UserIds |->
                [email |-> "a@b.rw", role |-> "citizen", status |-> "active",
                 emailVerified |-> FALSE, lastLogin |-> 0, stored |-> TRUE]]
  /\ otpCodes = {}
  /\ otpSeq = 0
  /\ mails = 0
  /\ blacklist = {}
  /\ blSeq = 0
  /\ minted = {}
  /\ calls = [p \in Procs |-> Idle]
  /\ last = Idle
  /\ okCount = [i \in 1..MaxOtp |-> 0]
  /\ loggedOut = {}
  /\ refreshed = {}
  /\ limiter = [made |-> FALSE, maxRequests |-> 0, windowMs |-> 0]
  /\ userRequests = [u \in {} |-> 0]

\* a response is handed to its caller before the next step is taken
Quiet == last = Idle

Ready(p) == Quiet /\ calls[p].op = "idle"

At(p, pc) == Quiet /\ calls[p].pc = pc

\* the handler of p awaits its next storage round trip in state c
Goto(p, c) == calls' = [calls EXCEPT ![p] = c] /\ last' = last

\* the handler of p has returned c to its caller
Return(p, c) == calls' = [calls EXCEPT ![p] = Idle] /\ last' = c

Begin(op, email, code, tok) ==
  [Idle EXCEPT !.op = op, !.email = email, !.code = code, !.tok = tok]

\* ------------------------------------------------- AuthService.sendOTPCode
\* User.findOne and the two early returns
SendLookup(p, e) ==
  /\ Ready(p)
  /\ LET c == [Begin("send", e, "", NoToken) EXCEPT !.cls = UserCase(e),
                                                    !.who = UserCase(e)]
         found == UserFindByEmail(e)
     IN  IF found = {}
           THEN Return(p, Finish(c, FALSE,
                         "No account found with this email address"))
         ELSE IF \E u \in found : users[u].status # "active"
           THEN Return(p, Finish(c, FALSE,
                  "Account is inactive. Please contact administrator."))
         ELSE Goto(p, [c EXCEPT !.pc = "s_delete"])
  /\ UNCHANGED <<limiter, userRequests>>
  /\ UNCHANGED <<now, users, otpCodes, otpSeq, mails, blacklist, blSeq,
                 minted, okCount, loggedOut, refreshed>>

\* await OTPCode.deleteMany({ email, verified: false })
SendDelete(p) ==
  /\ At(p, "s_delete")
  /\ otpCodes' = OtpDeleteMany(otpCodes, calls[p].email)
  /\ Goto(p, [calls[p] EXCEPT !.pc = "s_save"])
  /\ UNCHANGED <<limiter, userRequests>>
  /\ UNCHANGED <<now, users, otpSeq, mails, blacklist, blSeq, minted,
                 okCount, loggedOut, refreshed>>

\* Math.random code, expiresAt from Date.now(), await otpCode.save(), then
\* await emailService.sendOTPEmail(email, code), whose boolean is not read
SendSave(p) ==
  /\ At(p, "s_save")
  /\ otpSeq < MaxOtp
  /\ \E code \in Codes, delivered \in BOOLEAN :
       /\ otpCodes' = OtpInsert(otpCodes, otpSeq + 1, calls[p].email, code,
                                OtpExpiresAt(now), now)
       /\ Return(p, Finish([calls[p] EXCEPT !.code = code,
                                            !.doc = otpSeq + 1,
                                            !.flag = delivered],
                           TRUE, "OTP code sent to your email address"))
  /\ otpSeq' = otpSeq + 1
  /\ mails' = mails + 1
  /\ UNCHANGED <<limiter, userRequests>>
  /\ UNCHANGED <<now, users, blacklist, blSeq, minted, okCount, loggedOut,
                 refreshed>>

\* ----------------------------------------------- AuthService.verifyOTPCode
\* await OTPCode.findOne(...)
VerifyFind(p, e, code) ==
  /\ Ready(p)
  /\ LET c == [Begin("verify", e, code, NoToken) EXCEPT
                 !.flag = IssuedLongAgo(otpCodes, e, code, now),
                 !.cls = CodeCase(otpCodes, e, code, now,
                           IF UserFindByEmail(e) = {} THEN 0 ELSE otpSeq)]
         found == OtpFindOne(otpCodes, e, code, now)
     IN  \/ /\ found = {}
            /\ Return(p, Finish(c, FALSE, "Invalid or expired OTP code"))
         \/ \E d \in found :
              Goto(p, [c EXCEPT !.pc = "v_user", !.doc = d.id,
                                !.at = d.expiresAt])
  /\ UNCHANGED <<limiter, userRequests>>
  /\ UNCHANGED <<now, users, otpCodes, otpSeq, mails, blacklist, blSeq,
                 minted, okCount, loggedOut, refreshed>>

\* await User.findOne(...) and the two early returns
VerifyUser(p) ==
  /\ At(p, "v_user")
  /\ LET c == [calls[p] EXCEPT !.who = UserCase(calls[p].email)]
         found == UserFindByEmail(c.email)
     IN  IF found = {}
           THEN Return(p, Finish(c, FALSE, "User not found"))
         ELSE IF \E u \in found : users[u].status # "active"
           THEN Return(p, Finish(c, FALSE, "Account is inactive"))
         ELSE Goto(p, [c EXCEPT !.pc = "v_save",
                                !.user = CHOOSE u \in found : TRUE])
  /\ UNCHANGED <<limiter, userRequests>>
  /\ UNCHANGED <<now, users, otpCodes, otpSeq, mails, blacklist, blSeq,
                 minted, okCount, loggedOut, refreshed>>

\* otpCode.verified = true; await otpCode.save(): the update is by _id and
\* throws DocumentNotFoundError when the record is gone
VerifySave(p) ==
  /\ At(p, "v_save")
  /\ IF \E d \in otpCodes : d.id = calls[p].doc
       THEN /\ otpCodes' = OtpMarkVerified(otpCodes, calls[p].doc)
            /\ Goto(p, [calls[p] EXCEPT !.pc = "v_login"])
       ELSE /\ otpCodes' = otpCodes
            /\ Return(p, Finish(calls[p], FALSE, "Failed to verify OTP code"))
  /\ UNCHANGED <<limiter, userRequests>>
  /\ UNCHANGED <<now, users, otpSeq, mails, blacklist, blSeq, minted,
                 okCount, loggedOut, refreshed>>

\* the response object of a successful verifyOTPCode:
\* { success: true, token, user: user.toJSON(), message }
LoginResponse(c, token, refreshToken, u) ==
  [Finish(c, TRUE, "Login successful") EXCEPT !.tok = token, !.user = u]

\* user.lastLogin / emailVerified, await user.save() (the update is by _id
\* and throws DocumentNotFoundError when the user is gone, which the catch
\* turns into the failure envelope), the two tokens, return
VerifyLogin(p) ==
  /\ At(p, "v_login")
  /\ LET u == calls[p].user
         token == generateAccessToken(u, now)
         refreshToken == generateRefreshToken(u, now)
     IN  IF ~users[u].stored
           THEN /\ Return(p, Finish(calls[p], FALSE,
                                    "Failed to verify OTP code"))
                /\ UNCHANGED <<users, minted, okCount>>
           ELSE /\ Cardinality(minted \cup {token, refreshToken}) <= MaxMint
                /\ users' = [users EXCEPT ![u].lastLogin = now,
                                          ![u].emailVerified = TRUE]
                /\ minted' = minted \cup {token, refreshToken}
                /\ okCount' = [okCount EXCEPT ![calls[p].doc] = @ + 1]
                /\ Return(p, LoginResponse(calls[p], token, refreshToken, u))
  /\ UNCHANGED <<limiter, userRequests>>
  /\ UNCHANGED <<now, otpCodes, otpSeq, mails, blacklist, blSeq, loggedOut,
                 refreshed>>

\* ------------------------------------------------------ AuthService.logout
\* jwt.decode; new TokenBlacklist({token, expiresAt}).save(); a save error
\* other than E11000 is rethrown and becomes "Logout failed"
logout(p, tok) ==
  /\ Ready(p)
  /\ LET c == [Begin("logout", "", "", tok) EXCEPT
                 !.flag = BlDuplicate(blacklist, tok)]
         err == BlSaveError(blacklist, tok)
     IN  IF ~JwtDecodable(tok)
           THEN /\ Return(p, Finish(c, FALSE, "Invalid token"))
                /\ UNCHANGED <<blacklist, blSeq, loggedOut>>
           ELSE /\ err # 0 \/ blSeq < MaxBlacklist
                /\ blacklist' = BlInsert(blacklist, blSeq + 1, tok,
                                         BlExpiresAt(tok))
                /\ blSeq' = IF blacklist' = blacklist THEN blSeq
                            ELSE blSeq + 1
                /\ IF err # 0 /\ ~IgnoredSaveError(err)
                     THEN /\ Return(p, Finish(c, FALSE, "Logout failed"))
                          /\ loggedOut' = loggedOut
                     ELSE /\ Return(p, Finish(c, TRUE, "Logout successful"))
                          /\ loggedOut' = loggedOut \cup {tok}
  /\ UNCHANGED <<limiter, userRequests>>
  /\ UNCHANGED <<now, users, otpCodes, otpSeq, mails, minted, okCount,
                 refreshed>>

\* ------------------------------------------ AuthService.refreshAccessToken
\* mutant: the response also carries a new refresh token
RefreshResponseRotating(c, newAccessToken) ==
  [Finish(c, TRUE, "Token refreshed successfully") EXCEPT
     !.tok = newAccessToken,
     !.rtok = generateRefreshToken(newAccessToken.sub, now)]

\* the response object of a successful refreshAccessToken:
\* { success: true, token: newAccessToken, message }
RefreshResponse(c, newAccessToken) ==
  [Finish(c, TRUE, "Token refreshed successfully") EXCEPT
     !.tok = newAccessToken]

\* verifyRefreshToken (a throw lands in the catch), then await
\* TokenBlacklist.findOne
RefreshCheck(p, tok) ==
  /\ Ready(p)
  /\ LET c == [Begin("refresh", "", "", NoToken) EXCEPT
                 !.arg = tok, !.cls = RefreshCase(tok, now)]
     IN  IF ~verifyRefreshToken(tok, now)
           THEN Return(p, Finish(c, FALSE, "Failed to refresh token"))
         ELSE IF RefreshBlacklisted(blacklist, tok, now)
           THEN Return(p, Finish(c, FALSE, "Refresh token is blacklisted"))
         ELSE Goto(p, [c EXCEPT !.pc = "r_user"])
  /\ UNCHANGED <<limiter, userRequests>>
  /\ UNCHANGED <<now, users, otpCodes, otpSeq, mails, blacklist, blSeq,
                 minted, okCount, loggedOut, refreshed>>

\* await User.findById, the status check, generateAccessToken, return; the
\* new token joins the tokens that clients hold while they hold fewer than
\* MaxMint
RefreshUser(p) ==
  /\ At(p, "r_user")
  /\ LET c == [calls[p] EXCEPT !.who = UserIdCase(calls[p].arg.sub)]
         found == UserFindById(c.arg.sub)
     IN  IF found = {} \/ \E u \in found : users[u].status # "active"
           THEN /\ Return(p, Finish(c, FALSE, "User not found or inactive"))
                /\ UNCHANGED <<minted, refreshed>>
           ELSE LET newAccessToken == generateAccessToken(c.arg.sub, now)
                IN  /\ minted' =
                         IF Cardinality(minted \cup {newAccessToken}) <= MaxMint
                           THEN minted \cup {newAccessToken}
                         ELSE minted
                    /\ refreshed' = refreshed \cup {c.arg}
                    /\ Return(p, RefreshResponse(c, newAccessToken))
  /\ UNCHANGED <<limiter, userRequests>>
  /\ UNCHANGED <<now, users, otpCodes, otpSeq, mails, blacklist, blSeq,
                 okCount, loggedOut>>

\* --------------------------------------------- authenticate (middleware)
\* const isBlacklisted = await authService.isTokenBlacklisted(token)
AuthCheck(p, tok) ==
  /\ Ready(p)
  /\ LET c == [Begin("authenticate", "", "", tok) EXCEPT
                 !.flag = tok \in loggedOut /\ verifyAccessToken(tok, now),
                 !.cls = RevokedCase(blacklist, tok, now),
                 !.seen = <<"blacklist">>]
     IN  IF isTokenBlacklisted(blacklist, tok, now)
           THEN Return(p, Finish(c, FALSE, "Token has been revoked"))
           ELSE Goto(p, [c EXCEPT !.pc = "a_verify"])
  /\ UNCHANGED <<limiter, userRequests>>
  /\ UNCHANGED <<now, users, otpCodes, otpSeq, mails, blacklist, blSeq,
                 minted, okCount, loggedOut, refreshed>>

\* verifyAccessToken, await User.findById, status check, req.user = user
AuthVerify(p) ==
  /\ At(p, "a_verify")
  /\ LET v == Saw(calls[p], "verify")
         c == [Saw(v, "user") EXCEPT !.who = UserIdCase(v.tok.sub)]
         found == UserFindById(c.tok.sub)
     IN  IF ~verifyAccessToken(c.tok, now)
           THEN Return(p, Finish(v, FALSE, "Invalid or expired token"))
         ELSE IF found = {}
           THEN Return(p, Finish(c, FALSE, "User not found"))
         ELSE IF users[c.tok.sub].status # "active"
           THEN Return(p, Finish(c, FALSE, "Account is inactive"))
         ELSE Return(p, [Finish(c, TRUE, "next") EXCEPT !.user = c.tok.sub])
  /\ UNCHANGED <<limiter, userRequests>>
  /\ UNCHANGED <<now, users, otpCodes, otpSeq, mails, blacklist, blSeq,
                 minted, okCount, loggedOut, refreshed>>

\* --------------------------------------------- optionalAuth (middleware)
\* const isBlacklisted = await authService.isTokenBlacklisted(token); a
\* revoked token lets the request continue without a user
OptAuthCheck(p, tok) ==
  /\ Ready(p)
  /\ LET c == [Begin("optionalAuth", "", "", tok) EXCEPT
                 !.cls = RevokedCase(blacklist, tok, now),
                 !.seen = <<"blacklist">>]
     IN  IF isTokenBlacklisted(blacklist, tok, now)
           THEN Return(p, Finish(c, TRUE, "next"))
           ELSE Goto(p, [c EXCEPT !.pc = "o_verify"])
  /\ UNCHANGED <<limiter, userRequests>>
  /\ UNCHANGED <<now, users, otpCodes, otpSeq, mails, blacklist, blSeq,
                 minted, okCount, loggedOut, refreshed>>

\* verifyAccessToken (a throw lands in the catch, which calls next), await
\* User.findById, req.user only for an active user, next()
OptAuthVerify(p) ==
  /\ At(p, "o_verify")
  /\ LET v == Saw(calls[p], "verify")
         c == Saw(v, "user")
         found == UserFindById(c.tok.sub)
     IN  IF ~verifyAccessToken(c.tok, now)
           THEN Return(p, Finish(v, TRUE, "next"))
         ELSE IF found # {} /\ users[c.tok.sub].status = "active"
           THEN Return(p, [Finish(c, TRUE, "next") EXCEPT !.user = c.tok.sub])
         ELSE Return(p, Finish(c, TRUE, "next"))
  /\ UNCHANGED <<limiter, userRequests>>
  /\ UNCHANGED <<now, users, otpCodes, otpSeq, mails, blacklist, blSeq,
                 minted, okCount, loggedOut, refreshed>>

\* ------------------------------------------- resetPassword (controller)
\* verifyPasswordResetToken (a throw lands in the catch), await
\* User.findById, response; no password is stored
resetPassword(p, tok) ==
  /\ Ready(p)
  /\ LET c == Begin("reset", "", "", tok)
     IN  IF ~verifyPasswordResetToken(tok, now)
           THEN Return(p, Finish(c, FALSE, "Invalid or expired reset token"))
         ELSE IF UserFindById(tok.sub) = {}
           THEN Return(p, Finish(c, FALSE, "Invalid or expired reset token"))
         ELSE Return(p, [Finish(c, TRUE,
                           "Password has been reset successfully")
                         EXCEPT !.user = tok.sub])
  /\ UNCHANGED <<limiter, userRequests>>
  /\ UNCHANGED <<now, users, otpCodes, otpSeq, mails, blacklist, blSeq,
                 minted, okCount, loggedOut, refreshed>>

\* ----------------------------------------- AuthService.getUserFromToken
\* what a token is to getUserFromToken at time t: verifyAccessToken throws
\* ("invalid"), no user has its subject ("nouser"), or a user has ("user")
TokenUserCase(tok, t) ==
  IF tok.type = "garbage" \/ tok.key # jwtSecret \/ NowSec(t) >= tok.exp
    THEN "invalid"
  ELSE IF \A u \in UserIds : users[u].stored => u # tok.sub THEN "nouser"
  ELSE "user"

\* try { verifyAccessToken; await User.findById; return user }
\* catch { return null }
getUserFromToken(p, tok) ==
  /\ Ready(p)
  /\ LET c == [Begin("getUser", "", "", tok) EXCEPT
                 !.cls = TokenUserCase(tok, now)]
     IN  IF ~verifyAccessToken(tok, now)
           THEN Return(p, Finish(c, FALSE, "null"))
         ELSE IF UserFindById(tok.sub) = {}
           THEN Return(p, Finish(c, FALSE, "null"))
         ELSE Return(p, [Finish(c, TRUE, "user") EXCEPT !.user = tok.sub])
  /\ UNCHANGED <<limiter, userRequests>>
  /\ UNCHANGED <<now, users, otpCodes, otpSeq, mails, blacklist, blSeq,
                 minted, okCount, loggedOut, refreshed>>

\* User.findById of getUserFromToken rejects: the catch returns null
GetUserFault(p, tok) ==
  /\ Ready(p)
  /\ verifyAccessToken(tok, now)
  /\ Return(p, Finish([Begin("getUser", "", "", tok) EXCEPT !.cls = "fault"],
                      FALSE, "null"))
  /\ UNCHANGED <<limiter, userRequests>>
  /\ UNCHANGED <<now, users, otpCodes, otpSeq, mails, blacklist, blSeq,
                 minted, okCount, loggedOut, refreshed>>

\* -------------------------------------- AuthService.hasRole / canAccess
Roles == {"admin", "citizen"}

\* role names passed as requiredRole
RequiredRoles == {"admin", "citizen", "moderator"}

\* the own properties of the object literal citizenAccess
citizenAccess ==
  [news |-> {"read"}, feedback |-> {"read", "create"},
   help_request |-> {"create"}, profile |-> {"read", "update"}]

\* the string key of a resource name ('help-request' is a quoted key)
Key(resource) == IF resource = "help-request" THEN "help_request" ELSE resource

\* names that every object literal inherits from Object.prototype; their
\* values are functions, which are truthy and have no includes method
ObjectPrototypeKeys == {"constructor", "toString"}

Resources ==
  {"news", "feedback", "help-request", "profile", "users"} \cup
  ObjectPrototypeKeys

\* "undefined" is the omitted third argument
Actions == {"read", "create", "update", "delete", "undefined"}

\* the default parameter value action = 'read'
ActionOrDefault(action) == IF action = "undefined" THEN "read" ELSE action

\* citizenAccess[resource]: an own property, an inherited one, or undefined
Lookup(resource) ==
  IF Key(resource) \in DOMAIN citizenAccess THEN "own"
  ELSE IF resource \in ObjectPrototypeKeys THEN "inherited"
  ELSE "undefined"

\* hasRole(user, requiredRole)
hasRole(role, requiredRole) ==
  IF requiredRole = "admin" THEN role = "admin"
  ELSE role = requiredRole \/ role = "admin"

\* canAccess(user, resource, action): "true", "false", or the TypeError of
\* calling the includes that a function does not have
canAccess(role, resource, action) ==
  IF role = "admin" THEN "true"
  ELSE IF Lookup(resource) = "own"
    THEN IF ActionOrDefault(action) \in citizenAccess[Key(resource)]
           THEN "true" ELSE "false"
  ELSE IF Lookup(resource) = "inherited" THEN "TypeError"
  ELSE "false"

\* a caller evaluates authService.hasRole(user, requiredRole)
HasRoleCall(p, u, requiredRole) ==
  /\ Ready(p)
  /\ users[u].stored
  /\ Return(p, [Finish(Begin("hasRole", "", "", NoToken),
                       hasRole(users[u].role, requiredRole), "returned")
                EXCEPT !.user = u, !.cls = users[u].role,
                       !.roles = {requiredRole}])
  /\ UNCHANGED <<limiter, userRequests>>
  /\ UNCHANGED <<now, users, otpCodes, otpSeq, mails, blacklist, blSeq,
                 minted, okCount, loggedOut, refreshed>>

\* a caller evaluates authService.canAccess(user, resource, action)
CanAccessCall(p, u, resource, action) ==
  /\ Ready(p)
  /\ users[u].stored
  /\ LET c == [Begin("canAccess", "", "", NoToken) EXCEPT
                 !.user = u, !.cls = users[u].role,
                 !.resource = resource, !.action = action]
         r == canAccess(users[u].role, resource, action)
     IN  IF r = "TypeError"
           THEN Return(p, Raise(c, "allowedActions.includes is not a function"))
           ELSE Return(p, Finish(c, r = "true", "returned"))
  /\ UNCHANGED <<limiter, userRequests>>
  /\ UNCHANGED <<now, users, otpCodes, otpSeq, mails, blacklist, blSeq,
                 minted, okCount, loggedOut, refreshed>>

\* authorize(...roles) (middleware); u is req.user, "none" when no user
\* is attached to the request
authorize(p, u, roles) ==
  /\ Ready(p)
  /\ u # "none" => users[u].stored
  /\ LET c == [Begin("authorize", "", "", NoToken) EXCEPT
                 !.user = u, !.roles = roles,
                 !.cls = IF u = "none" THEN "none" ELSE users[u].role]
     IN  IF u = "none"
           THEN Return(p, Finish(c, FALSE, "Authentication required"))
         ELSE IF ~\E role \in roles : hasRole(users[u].role, role)
           THEN Return(p, Finish(c, FALSE, "Insufficient permissions"))
         ELSE Return(p, Finish(c, TRUE, "next"))
  /\ UNCHANGED <<limiter, userRequests>>
  /\ UNCHANGED <<now, users, otpCodes, otpSeq, mails, blacklist, blSeq,
                 minted, okCount, loggedOut, refreshed>>

\* adminOnly (middleware)
adminOnly(p, u) ==
  /\ Ready(p)
  /\ u # "none" => users[u].stored
  /\ LET c == [Begin("adminOnly", "", "", NoToken) EXCEPT
                 !.user = u,
                 !.cls = IF u = "none" THEN "none" ELSE users[u].role]
     IN  IF u = "none"
           THEN Return(p, Finish(c, FALSE, "Authentication required"))
         ELSE IF users[u].role # "admin"
           THEN Return(p, Finish(c, FALSE, "Admin access required"))
         ELSE Return(p, Finish(c, TRUE, "next"))
  /\ UNCHANGED <<limiter, userRequests>>
  /\ UNCHANGED <<now, users, otpCodes, otpSeq, mails, blacklist, blSeq,
                 minted, okCount, loggedOut, refreshed>>

\* ------------------------------------------- userRateLimit (middleware)
\* the ids of the authenticated users whose requests reach the limiter
RateUserIds == {"u1", "u2"}

\* the windowMs values a limiter is created with
Windows == {1, 2}

\* userRequests.set(userId, entry)
MapSet(map, key, entry) ==
  [k \in DOMAIN map \cup {key} |-> IF k = key THEN entry ELSE map[k]]

\* userRateLimit(maxRequests, windowMs): the middleware is created with an
\* empty Map
createUserRateLimit(maxRequests, windowMs) ==
  /\ Quiet
  /\ ~limiter.made
  /\ limiter' = [made |-> TRUE, maxRequests |-> maxRequests,
                 windowMs |-> windowMs]
  /\ UNCHANGED <<now, users, otpCodes, otpSeq, mails, blacklist, blSeq,
                 minted, calls, last, okCount, loggedOut, refreshed,
                 userRequests>>

\* mutant: the window is full only once the count exceeds maxRequests
WindowFullGt(count, maxRequests) == count > maxRequests

\* userLimit.count >= maxRequests
WindowFull(count, maxRequests) == count >= maxRequests

\* the middleware function; u is req.user, "none" when no user is attached
userRateLimit(p, u) ==
  /\ Ready(p)
  /\ limiter.made
  /\ LET c == [Begin("rateLimit", "", "", NoToken) EXCEPT !.user = u,
                                                          !.at = now]
     IN  IF u = "none"
           THEN /\ Return(p, Finish(c, TRUE, "next"))
                /\ userRequests' = userRequests
         ELSE IF \/ u \notin DOMAIN userRequests
                 \/ now > userRequests[u].resetTime
           THEN /\ userRequests' =
                     MapSet(userRequests, u,
                            [count |-> 1,
                             resetTime |-> now + limiter.windowMs])
                /\ Return(p, Finish(c, TRUE, "next"))
         ELSE IF WindowFull(userRequests[u].count, limiter.maxRequests)
           THEN /\ userRequests' = userRequests
                /\ Return(p, Finish(c, FALSE,
                     "Too many requests. Please try again later."))
         ELSE /\ userRequests' =
                   [userRequests EXCEPT ![u].count = @ + 1]
              /\ Return(p, Finish(c, TRUE, "next"))
  /\ UNCHANGED <<now, users, otpCodes, otpSeq, mails, blacklist, blSeq,
                 minted, okCount, loggedOut, refreshed, limiter>>

\* ------------------------------------- TokenBlacklist.statics.isBlacklisted
\* the boolean that isBlacklisted / AuthService.isTokenBlacklisted resolves
\* to for a token
isBlacklisted(tok) ==
  /\ Quiet
  /\ last' = [Begin("isBlacklisted", "", "", tok) EXCEPT
                !.pc = "done", !.ok = isTokenBlacklisted(blacklist, tok, now)]
  /\ UNCHANGED <<limiter, userRequests>>
  /\ UNCHANGED <<now, users, otpCodes, otpSeq, mails, blacklist, blSeq,
                 minted, calls, okCount, loggedOut, refreshed>>

\* ------------------------------------------ AuthService.cleanExpiredTokens
cleanExpiredTokens ==
  /\ Quiet
  /\ blacklist' = cleanExpired(blacklist, now)
  /\ last' = [Idle EXCEPT !.op = "clean", !.pc = "done", !.ok = TRUE,
                          !.at = now, !.flag = blacklist' # blacklist]
  /\ UNCHANGED <<limiter, userRequests>>
  /\ UNCHANGED <<now, users, otpCodes, otpSeq, mails, blSeq, minted, calls,
                 okCount, loggedOut, refreshed>>

\* --------------------------------------------------------- storage faults
\* a storage operation of sendOTPCode rejects (User.findOne of a new call,
\* deleteMany or save of one in progress): catch, then
\* throw new Error('Failed to send OTP code')
SendFault(p, e) ==
  /\ Quiet
  /\ \/ calls[p].op = "idle"
     \/ calls[p].op = "send" /\ calls[p].email = e
  /\ LET c == IF calls[p].op = "idle" THEN Begin("send", e, "", NoToken)
              ELSE calls[p]
     IN  Return(p, Raise(c, "Failed to send OTP code"))
  /\ UNCHANGED <<limiter, userRequests>>
  /\ UNCHANGED <<now, users, otpCodes, otpSeq, mails, blacklist, blSeq,
                 minted, okCount, loggedOut, refreshed>>

\* a storage operation of verifyOTPCode rejects (OTPCode.findOne of a new
\* call; User.findOne, otpCode.save or user.save of one in progress): the
\* catch returns the failure envelope
VerifyFault(p, e, code) ==
  /\ Quiet
  /\ \/ calls[p].op = "idle"
     \/ calls[p].op = "verify" /\ calls[p].email = e /\ calls[p].code = code
  /\ LET c == IF calls[p].op = "idle" THEN Begin("verify", e, code, NoToken)
              ELSE calls[p]
     IN  Return(p, Finish(c, FALSE, "Failed to verify OTP code"))
  /\ UNCHANGED <<limiter, userRequests>>
  /\ UNCHANGED <<now, users, otpCodes, otpSeq, mails, blacklist, blSeq,
                 minted, okCount, loggedOut, refreshed>>

\* a storage operation of refreshAccessToken rejects (TokenBlacklist.findOne
\* of a new call whose token verified; User.findById of one in progress)
RefreshFault(p, tok) ==
  /\ Quiet
  /\ \/ calls[p].op = "idle" /\ verifyRefreshToken(tok, now)
     \/ calls[p].op = "refresh" /\ calls[p].arg = tok
  /\ LET c == IF calls[p].op = "idle"
                THEN [Begin("refresh", "", "", NoToken) EXCEPT !.arg = tok]
              ELSE calls[p]
     IN  Return(p, Finish(c, FALSE, "Failed to refresh token"))
  /\ UNCHANGED <<limiter, userRequests>>
  /\ UNCHANGED <<now, users, otpCodes, otpSeq, mails, blacklist, blSeq,
                 minted, okCount, loggedOut, refreshed>>

\* blacklistedToken.save() of logout rejects with an error other than
\* E11000: rethrown to the outer catch
LogoutFault(p, tok) ==
  /\ Ready(p)
  /\ JwtDecodable(tok)
  /\ Return(p, Finish(Begin("logout", "", "", tok), FALSE, "Logout failed"))
  /\ UNCHANGED <<limiter, userRequests>>
  /\ UNCHANGED <<now, users, otpCodes, otpSeq, mails, blacklist, blSeq,
                 minted, okCount, loggedOut, refreshed>>

\* ------------------------------------------------------------ environment
\* requestPasswordReset (controller): mints a reset token for an active user
requestPasswordReset(e) ==
  /\ Quiet
  /\ \E u \in UserFindByEmail(e) :
       /\ users[u].status = "active"
       /\ LET t == generatePasswordResetToken(u, now)
          IN  /\ t \notin minted
              /\ Cardinality(minted) < MaxMint
              /\ minted' = minted \cup {t}
  /\ UNCHANGED <<limiter, userRequests>>
  /\ UNCHANGED <<now, users, otpCodes, otpSeq, mails, blacklist, blSeq,
                 calls, last, okCount, loggedOut, refreshed>>

\* activateUser / deactivateUser (user controller)
SetStatus(u, st) ==
  /\ Quiet
  /\ users[u].status # st
  /\ users' = [users EXCEPT ![u].status = st]
  /\ UNCHANGED <<limiter, userRequests>>
  /\ UNCHANGED <<now, otpCodes, otpSeq, mails, blacklist, blSeq, minted,
                 calls, last, okCount, loggedOut, refreshed>>

\* permanentlyDeleteUser (user controller): User.findByIdAndDelete
DeleteUser(u) ==
  /\ Quiet
  /\ users[u].stored
  /\ users' = [users EXCEPT ![u].stored = FALSE]
  /\ UNCHANGED <<limiter, userRequests>>
  /\ UNCHANGED <<now, otpCodes, otpSeq, mails, blacklist, blSeq, minted,
                 calls, last, okCount, loggedOut, refreshed>>

\* updateUserRole (user controller)
SetRole(u, role) ==
  /\ Quiet
  /\ users[u].stored
  /\ users[u].role # role
  /\ users' = [users EXCEPT ![u].role = role]
  /\ UNCHANGED <<limiter, userRequests>>
  /\ UNCHANGED <<now, otpCodes, otpSeq, mails, blacklist, blSeq, minted,
                 calls, last, okCount, loggedOut, refreshed>>

\* mutant: the TTL index is a partial index on the unverified records
TtlOtpUnverifiedOnly ==
  /\ Quiet
  /\ \E d \in otpCodes :
       /\ d.expiresAt <= now
       /\ ~d.verified
       /\ otpCodes' = otpCodes \ {d}
  /\ UNCHANGED <<limiter, userRequests>>
  /\ UNCHANGED <<now, users, otpSeq, mails, blacklist, blSeq, minted, calls,
                 last, okCount, loggedOut, refreshed>>

\* the TTL index of OTPCode.expiresAt (expireAfterSeconds: 0)
TtlOtp ==
  /\ Quiet
  /\ \E d \in otpCodes :
       /\ d.expiresAt <= now
       /\ otpCodes' = otpCodes \ {d}
  /\ UNCHANGED <<limiter, userRequests>>
  /\ UNCHANGED <<now, users, otpSeq, mails, blacklist, blSeq, minted, calls,
                 last, okCount, loggedOut, refreshed>>

\* the TTL index of TokenBlacklist.expiresAt (expireAfterSeconds: 0)
TtlBlacklist ==
  /\ Quiet
  /\ \E r \in blacklist :
       /\ r.expiresAt <= now
       /\ blacklist' = blacklist \ {r}
  /\ UNCHANGED <<limiter, userRequests>>
  /\ UNCHANGED <<now, users, otpCodes, otpSeq, mails, blSeq, minted, calls,
                 last, okCount, loggedOut, refreshed>>

\* the server clock
Tick ==
  /\ Quiet
  /\ now < MaxTime
  /\ now' = now + 1
  /\ UNCHANGED <<limiter, userRequests>>
  /\ UNCHANGED <<users, otpCodes, otpSeq, mails, blacklist, blSeq, minted,
                 calls, last, okCount, loggedOut, refreshed>>

\* the caller has received the response
Deliver ==
  /\ last # Idle
  /\ last' = Idle
  /\ UNCHANGED <<limiter, userRequests>>
  /\ UNCHANGED <<now, users, otpCodes, otpSeq, mails, blacklist, blSeq,
                 minted, calls, okCount, loggedOut, refreshed>>

\* ------------------------------------------------------- specifications
OtpStep(p) ==
  \/ \E e \in RawEmails : SendLookup(p, e)
  \/ SendDelete(p)
  \/ SendSave(p)
  \/ \E e \in RawEmails, code \in Codes : VerifyFind(p, e, code)
  \/ VerifyUser(p)
  \/ VerifySave(p)
  \/ VerifyLogin(p)

VerifyStep(p) ==
  \/ \E e \in RawEmails, code \in Codes : VerifyFind(p, e, code)
  \/ VerifyUser(p)
  \/ VerifySave(p)
  \/ VerifyLogin(p)

SessionStep(p) ==
  \/ \E tok \in minted \cup ForeignTokens : logout(p, tok)
  \/ \E tok \in minted \cup ForeignTokens : AuthCheck(p, tok)
  \/ AuthVerify(p)

RequestStep(p) ==
  \/ \E tok \in minted \cup ForeignTokens : OptAuthCheck(p, tok)
  \/ OptAuthVerify(p)

RefreshStep(p) ==
  \/ \E tok \in minted \cup ForeignTokens : RefreshCheck(p, tok)
  \/ RefreshUser(p)

FaultStep(p) ==
  \/ \E e \in RawEmails : SendFault(p, e)
  \/ \E e \in RawEmails, code \in Codes : VerifyFault(p, e, code)
  \/ \E tok \in minted \cup ForeignTokens : RefreshFault(p, tok)
  \/ \E tok \in minted \cup ForeignTokens : LogoutFault(p, tok)

PolicyStep(p) ==
  \/ \E u \in UserIds, r \in RequiredRoles : HasRoleCall(p, u, r)
  \/ \E u \in UserIds, r \in Resources, a \in Actions :
       CanAccessCall(p, u, r, a)
  \/ \E u \in UserIds \cup {"none"}, roles \in SUBSET RequiredRoles :
       authorize(p, u, roles)
  \/ \E u \in UserIds \cup {"none"} : adminOnly(p, u)

Env ==
  \/ cleanExpiredTokens
  \/ \E e \in RawEmails : requestPasswordReset(e)
  \/ \E u \in UserIds, st \in {"active", "inactive"} : SetStatus(u, st)
  \/ \E u \in UserIds : DeleteUser(u)
  \/ \E u \in UserIds, role \in Roles : SetRole(u, role)
  \/ TtlOtp
  \/ TtlBlacklist
  \/ Tick
  \/ Deliver

Next ==
  \/ \E p \in Procs : OtpStep(p) \/ SessionStep(p) \/ RefreshStep(p)
  \/ \E p \in Procs : FaultStep(p) \/ RequestStep(p)
  \/ \E p \in Procs, tok \in minted \cup ForeignTokens : resetPassword(p, tok)
  \/ \E tok \in minted \cup ForeignTokens : isBlacklisted(tok)
  \/ \E p \in Procs, tok \in minted \cup ForeignTokens :
       getUserFromToken(p, tok) \/ GetUserFault(p, tok)
  \/ \E p \in Procs : PolicyStep(p)
  \/ \E m \in 0..MaxRate, w \in Windows : createUserRateLimit(m, w)
  \/ \E p \in Procs, u \in RateUserIds \cup {"none"} : userRateLimit(p, u)
  \/ Env

Spec == Init /\ [][Next]_vars

\* the one-time-code flows of concurrent requests, the clock and the TTL
\* monitor
NextOtp ==
  \/ \E p \in Procs : OtpStep(p)
  \/ TtlOtp
  \/ Tick
  \/ Deliver

SpecOtp == Init /\ [][NextOtp]_vars

\* one client requests and presents codes while a second client presents
\* codes concurrently
NextOtpVerify ==
  \/ OtpStep("p1")
  \/ VerifyStep("p2")
  \/ TtlOtp
  \/ Tick
  \/ Deliver

SpecOtpVerify == Init /\ [][NextOtpVerify]_vars

\* the one-time-code flows when every request is served to completion
\* before the next one starts
NextOtpSeq ==
  \/ OtpStep("p1")
  \/ \E u \in UserIds, st \in {"active", "inactive"} : SetStatus(u, st)
  \/ TtlOtp
  \/ Tick
  \/ Deliver

SpecOtpSeq == Init /\ [][NextOtpSeq]_vars

\* some login has completed and handed out an access token
LoggedIn == \E t \in minted : t.type = "access"

\* concurrent logout / authenticate / purge on the tokens of the first
\* login: one code is issued and verified at start-up, the clock runs from
\* the moment the session exists
NextSession ==
  \/ /\ ~LoggedIn
     /\ OtpStep("p1")
     /\ calls'["p1"].op = "send" => otpSeq = 0
  \/ \E p \in Procs : SessionStep(p)
  \/ cleanExpiredTokens
  \/ \E e \in RawEmails : requestPasswordReset(e)
  \/ TtlBlacklist
  \/ LoggedIn /\ Tick
  \/ Deliver

SpecSession == Init /\ [][NextSession]_vars

\* concurrent refresh and logout on the tokens of the first login, while
\* the account may be deactivated and the blacklist purged
NextRefresh ==
  \/ /\ ~LoggedIn
     /\ OtpStep("p1")
     /\ calls'["p1"].op = "send" => otpSeq = 0
  \/ \E p \in Procs : RefreshStep(p)
  \/ \E p \in Procs, tok \in minted \cup ForeignTokens : logout(p, tok)
  \/ \E u \in UserIds, st \in {"active", "inactive"} :
       LoggedIn /\ SetStatus(u, st)
  \/ cleanExpiredTokens
  \/ TtlBlacklist
  \/ LoggedIn /\ Tick
  \/ Deliver

SpecRefresh == Init /\ [][NextRefresh]_vars

\* concurrent requests behind authenticate and optionalAuth, and logouts,
\* on the tokens of the first login, while the account may be deactivated
NextRequest ==
  \/ /\ ~LoggedIn
     /\ OtpStep("p1")
     /\ calls'["p1"].op = "send" => otpSeq = 0
  \/ \E p \in Procs : SessionStep(p)
  \/ \E p \in Procs : RequestStep(p)
  \/ \E u \in UserIds, st \in {"active", "inactive"} :
       LoggedIn /\ SetStatus(u, st)
  \/ TtlBlacklist
  \/ LoggedIn /\ Tick
  \/ Deliver

SpecRequest == Init /\ [][NextRequest]_vars

\* password resets, logouts and blacklist lookups on the tokens of the
\* first login and of password-reset requests
NextReset ==
  \/ /\ ~LoggedIn
     /\ OtpStep("p1")
     /\ calls'["p1"].op = "send" => otpSeq = 0
  \/ \E p \in Procs, tok \in minted \cup ForeignTokens : logout(p, tok)
  \/ \E p \in Procs, tok \in minted \cup ForeignTokens : resetPassword(p, tok)
  \/ \E tok \in minted \cup ForeignTokens : isBlacklisted(tok)
  \/ \E e \in RawEmails : requestPasswordReset(e)
  \/ cleanExpiredTokens
  \/ TtlBlacklist
  \/ Tick
  \/ Deliver

SpecReset == Init /\ [][NextReset]_vars

\* the four service operations of one client, any of whose storage round
\* trips may fail
NextFault ==
  \/ OtpStep("p1")
  \/ RefreshStep("p1")
  \/ \E tok \in minted \cup ForeignTokens : logout("p1", tok)
  \/ FaultStep("p1")
  \/ Tick
  \/ Deliver

SpecFault == Init /\ [][NextFault]_vars

\* soft-authentication lookups on the tokens of the first login, while the
\* account may be deactivated or deleted and the user lookup may fail
NextLookup ==
  \/ /\ ~LoggedIn
     /\ OtpStep("p1")
     /\ calls'["p1"].op = "send" => otpSeq = 0
  \/ \E p \in Procs, tok \in minted \cup ForeignTokens :
       getUserFromToken(p, tok)
  \/ \E p \in Procs, tok \in minted \cup ForeignTokens : GetUserFault(p, tok)
  \/ \E p \in Procs, tok \in minted \cup ForeignTokens : logout(p, tok)
  \/ \E u \in UserIds, st \in {"active", "inactive"} :
       LoggedIn /\ SetStatus(u, st)
  \/ \E u \in UserIds : LoggedIn /\ DeleteUser(u)
  \/ LoggedIn /\ Tick
  \/ Deliver

SpecLookup == Init /\ [][NextLookup]_vars

\* role and permission checks of requests while an administrator changes
\* the role of the user
NextPolicy ==
  \/ \E p \in Procs : PolicyStep(p)
  \/ \E u \in UserIds, role \in Roles : SetRole(u, role)
  \/ Deliver

SpecPolicy == Init /\ [][NextPolicy]_vars

\* one client signs in and uses the session, every request served to
\* completion before the next, while the account may be deactivated
NextHappy ==
  \/ OtpStep("p1")
  \/ \E tok \in minted \cup ForeignTokens : AuthCheck("p1", tok)
  \/ AuthVerify("p1")
  \/ \E u \in UserIds, st \in {"active", "inactive"} : SetStatus(u, st)
  \/ TtlOtp
  \/ Tick
  \/ Deliver

SpecHappy == Init /\ [][NextHappy]_vars

\* the four operations that look the user up, served one after another,
\* while an administrator deactivates, reactivates or deletes the account
NextStatus ==
  \/ OtpStep("p1")
  \/ RefreshStep("p1")
  \/ \E tok \in minted \cup ForeignTokens : AuthCheck("p1", tok)
  \/ AuthVerify("p1")
  \/ \E u \in UserIds, st \in {"active", "inactive"} : SetStatus(u, st)
  \/ \E u \in UserIds : DeleteUser(u)
  \/ Tick
  \/ Deliver

SpecStatus == Init /\ [][NextStatus]_vars

\* the login and the logouts of one client under the TTL monitor of the database,
\* a background thread that keeps passing over both collections whatever
\* the requests do, and a server that sends every response
NextLive ==
  \/ /\ ~LoggedIn
     /\ OtpStep("p1")
     /\ calls'["p1"].op = "send" => otpSeq = 0
  \/ \E tok \in minted \cup ForeignTokens : logout("p1", tok)
  \/ cleanExpiredTokens
  \/ TtlOtp
  \/ TtlBlacklist
  \/ Tick
  \/ Deliver

SpecLive ==
  /\ Init
  /\ [][NextLive]_vars
  /\ WF_vars(Deliver)
  /\ SF_vars(TtlOtp)
  /\ SF_vars(TtlBlacklist)

\* the requests of one client, served one after another, with the TTL
\* monitor and the administrative sweep running between any two of their
\* storage round trips
NextPurge ==
  \/ OtpStep("p1")
  \/ \E tok \in minted : logout("p1", tok)
  \/ \E tok \in minted : AuthCheck("p1", tok)
  \/ AuthVerify("p1")
  \/ cleanExpiredTokens
  \/ TtlOtp
  \/ TtlBlacklist
  \/ Tick
  \/ Deliver

SpecPurge == Init /\ [][NextPurge]_vars

\* the requests of two users and of anonymous callers through one rate
\* limiter
NextRate ==
  \/ \E m \in 0..MaxRate, w \in Windows : createUserRateLimit(m, w)
  \/ \E u \in RateUserIds \cup {"none"} : userRateLimit("p1", u)
  \/ Tick
  \/ Deliver

SpecRate == Init /\ [][NextRate]_vars

\* ================================================================ claims
Emails == {ToLower(e) : e \in RawEmails}

\* C1: among all verifyCode calls for one issued code record, concurrent
\* ones included, at most one returns success.
SingleUse == \A i \in 1..MaxOtp : okCount[i] <= 1

\* C2: when sendCode calls run one after another, storage never holds more
\* than one unconsumed, unexpired code for an email.
SingleActiveCodeSequential ==
  \A e \in Emails : Cardinality(ActiveCodes(otpCodes, e, now)) <= 1

\* C2 witness: a second sendCode has returned while the first code, never
\* consumed, would still be within its lifetime, and one active code is left.
SecondSendReplacedFirst ==
  /\ last.op = "send" /\ last.ok /\ last.doc = 2
  /\ okCount[1] = 0
  /\ now < OtpLifetimeMs
  /\ Cardinality(ActiveCodes(otpCodes, "a@b.rw", now)) = 1

\* C3: at no moment, concurrent sendCode calls included, do two distinct
\* unconsumed, unexpired code records exist for the same email.
SingleActiveCodeAlways ==
  \A d1, d2 \in otpCodes :
    (/\ d1.email = d2.email
     /\ ~d1.verified /\ ~d2.verified
     /\ d1.expiresAt > now /\ d2.expiresAt > now) => d1 = d2

\* C4: an authenticate call that starts after logout(token) succeeded, with
\* the token still passing signature and expiry verification, ends with the
\* revocation error and attaches no user.
RevokedTokenRejected ==
  (last.op = "authenticate" /\ last.flag) =>
    (last.res = "Token has been revoked" /\ ~last.ok /\ last.user = "none")

\* C4 witness: a service-signed access token, logged out, has been presented
\* to authenticate before its expiry and was rejected as revoked.
RevokedAccessTokenPresented ==
  /\ last.op = "authenticate" /\ last.flag
  /\ last.tok.type = "access" /\ last.tok \in minted
  /\ last.res = "Token has been revoked"

\* C5: a verifyCode call made once OtpLifetimeMs or more have passed since
\* the issuance of every unconsumed record of that email and code fails
\* with the invalid-or-expired failure.
ExpiredCodeRejected ==
  (last.op = "verify" /\ last.flag) =>
    (~last.ok /\ last.res = "Invalid or expired OTP code")

\* C5 witness: the correct, never-consumed code of a record still in storage
\* was presented exactly at its expiry and refused.
ExpiredCodePresented ==
  /\ last.op = "verify" /\ last.flag /\ ~last.ok
  /\ \E d \in otpCodes : /\ d.email = ToLower(last.email)
                         /\ d.code = last.code
                         /\ ~d.verified
                         /\ d.expiresAt = now

\* C6: logout of a decodable token succeeds, also when the token is already
\* blacklisted, and afterwards the blacklist holds exactly one record for
\* that token; no token has two records.
LogoutIdempotent ==
  /\ (last.op = "logout" /\ JwtDecodable(last.tok)) =>
       (last.ok /\ Cardinality({r \in blacklist : r.token = last.tok}) = 1)
  /\ \A r1, r2 \in blacklist : r1.token = r2.token => r1 = r2

\* C6 witness: a logout of a token that already had a blacklist record has
\* returned success.
SecondLogoutSucceeded ==
  /\ last.op = "logout" /\ last.flag /\ last.ok
  /\ last.tok.type = "access" /\ last.tok \in minted
  /\ Cardinality({r \in blacklist : r.token = last.tok}) = 1

\* C7: no refresh token minted by the service passes verifyAccessToken and
\* no access token minted by the service passes verifyRefreshToken.
TokenKindIsolation ==
  \A t \in minted :
    /\ t.type = "refresh" => ~verifyAccessToken(t, now)
    /\ t.type = "access" => ~verifyRefreshToken(t, now)

\* C7 witness: a minted refresh token that verifyRefreshToken still accepts
\* was presented to authenticate and failed access-token verification.
RefreshTokenPresentedAsAccess ==
  /\ last.op = "authenticate" /\ last.tok.type = "refresh"
  /\ last.tok \in minted
  /\ verifyRefreshToken(last.tok, now)
  /\ last.res = "Invalid or expired token"

\* C8: authenticate attaches a user only for a token whose kind is access.
OnlyAccessKindAccepted ==
  (last.op = "authenticate" /\ last.ok) => last.tok.type = "access"

\* C9: purgeExpired removes exactly the blacklist records with
\* expiresAt <= now, keeps every other record unchanged, and a second purge
\* at the same time would change nothing.
PurgeExact ==
  [][last'.op = "clean" =>
       /\ blacklist' = {r \in blacklist : r.expiresAt > now}
       /\ \A r \in blacklist' : r.expiresAt > now'
       /\ cleanExpired(blacklist', now') = blacklist']_vars

\* C9 witness: a purge has removed an expired record and left an unexpired
\* one in place.
PurgeRemovedSomeKeptSome ==
  /\ last.op = "clean" /\ last.flag
  /\ \E r \in blacklist : r.expiresAt > now

\* C10: a successful verifyCode returns an access token, a refresh token and
\* the user.
LoginReturnsBothTokens ==
  (last.op = "verify" /\ last.ok) =>
    (last.tok # NoToken /\ last.rtok # NoToken /\ last.user # "none")

\* C11: a verifyCode call whose code is wrong, expired, already consumed or
\* was never issued for the email returns the same failure in all four
\* cases: no success, the invalid-or-expired message, no token, no user.
UniformCodeFailure ==
  (last.op = "verify" /\ last.cls \in {"wrong", "expired", "consumed", "never"})
    => /\ ~last.ok
       /\ last.res = "Invalid or expired OTP code"
       /\ last.tok = NoToken /\ last.rtok = NoToken
       /\ last.user = "none"

\* C11 witness: a code that was consumed by a login and whose record is
\* still within its lifetime was presented again and refused.
ConsumedCodePresented ==
  /\ last.op = "verify" /\ last.cls = "consumed" /\ ~last.ok
  /\ \E d \in otpCodes : /\ d.email = ToLower(last.email)
                         /\ d.code = last.code
                         /\ d.verified /\ d.expiresAt > now

\* C12: a verifyCode call with a code that is not the issued one fails and
\* changes no code record, so the issued code stays stored and unconsumed;
\* and a verifyCode call with the issued code that returns while the record
\* is within its lifetime and the user is active succeeds.
WrongCodeLeavesCodeUntouched ==
  [][/\ (last'.op = "verify" /\ last'.cls = "wrong")
          => /\ ~last'.ok
             /\ otpCodes' = otpCodes
             /\ okCount' = okCount
             /\ \A d \in ActiveCodes(otpCodes, ToLower(last'.email), now) :
                  d \in otpCodes' /\ ~d.verified
     /\ (/\ last'.op = "verify" /\ last'.cls = "match"
         /\ \E d \in otpCodes' : d.id = last'.doc /\ d.expiresAt > now'
         /\ \A u \in UserFindByEmail(last'.email) :
              users'[u].status = "active")
          => last'.ok]_vars

\* C12 witness: a wrong code was presented and refused while the issued
\* code of that email is in storage, unconsumed and unexpired.
WrongCodePresented ==
  /\ last.op = "verify" /\ last.cls = "wrong" /\ ~last.ok
  /\ \E d \in ActiveCodes(otpCodes, ToLower(last.email), now) :
       d.code # last.code

\* C13: sendCode for an email that no user has fails with the no-account
\* failure, and for a user who is not active with the account-inactive
\* failure; in both cases no code record is created, deleted or changed and
\* the email service is not called.
RefusedSendLeavesNoTrace ==
  [][(last'.op = "send" /\ last'.cls \in {"nouser", "inactive"})
       => /\ ~last'.ok
          /\ last'.cls = "nouser" =>
               last'.res = "No account found with this email address"
          /\ last'.cls = "inactive" =>
               last'.res = "Account is inactive. Please contact administrator."
          /\ otpCodes' = otpCodes
          /\ otpSeq' = otpSeq
          /\ mails' = mails]_vars

\* C13 witness: sendCode was refused for a deactivated user whose earlier
\* code is still in storage, unconsumed and unexpired.
SendRefusedForInactiveUser ==
  /\ last.op = "send" /\ last.cls = "inactive" /\ ~last.ok
  /\ ActiveCodes(otpCodes, ToLower(last.email), now) # {}
  /\ mails = otpSeq

\* C14: a successful refresh returns an access token and no refresh token,
\* mints no refresh token and leaves the presented token without a blacklist
\* record of its own making; and a refresh with a service-signed refresh
\* token that is unexpired and not blacklisted, used before or not, succeeds
\* while the user is active.
NoRefreshRotation ==
  /\ (last.op = "refresh" /\ last.ok) =>
       /\ last.tok.type = "access" /\ last.rtok = NoToken
       /\ (\E r \in blacklist : r.token = last.arg) => last.arg \in loggedOut
  /\ Cardinality({t \in minted : t.type = "refresh"}) <= 1
  /\ (/\ last.op = "refresh" /\ last.cls \in {"fresh", "reused"}
      /\ users[last.arg.sub].status = "active") => last.ok

\* C14 witness: a refresh token that had already bought an access token was
\* presented again and bought another one.
RefreshTokenReused ==
  /\ last.op = "refresh" /\ last.cls = "reused" /\ last.ok
  /\ last.arg \in refreshed

\* C15: a refresh with a validly signed, unexpired refresh token that has an
\* unexpired blacklist record fails with the blacklisted failure and returns
\* no token, while a token that fails verification gets the other failure.
RevokedRefreshRejected ==
  /\ (last.op = "refresh" /\ last.cls = "revoked") =>
       /\ ~last.ok
       /\ last.res = "Refresh token is blacklisted"
       /\ last.tok = NoToken /\ last.rtok = NoToken
  /\ (last.op = "refresh" /\ last.cls = "invalid") =>
       (~last.ok /\ last.res = "Failed to refresh token")

\* C15 witness: a logged-out refresh token that still verifies was presented
\* to refresh and refused as blacklisted.
RevokedRefreshPresented ==
  /\ last.op = "refresh" /\ last.cls = "revoked" /\ ~last.ok
  /\ verifyRefreshToken(last.arg, now)
  /\ last.arg \in loggedOut

\* C16: when the email service reports that the one-time-code message was
\* not delivered, sendCode does not return success.
EmailFailureNotSuccess ==
  (last.op = "send" /\ last.doc # 0 /\ ~last.flag) => ~last.ok

\* C17: sendCode, verifyCode, refresh and logout hand every outcome, a
\* storage failure included, to the caller as a success/failure envelope;
\* none of them lets an exception escape.
NoExceptionPastBoundary ==
  last.op \in {"send", "verify", "refresh", "logout"} => last.pc # "thrown"

\* C18: resetPassword accepts only a token whose kind is password_reset, and
\* verifyPasswordResetToken passes no token of another kind, a valid access
\* token included.
ResetTokenKindChecked ==
  /\ (last.op = "reset" /\ last.ok) => last.tok.type = "password_reset"
  /\ \A t \in minted \cup ForeignTokens :
       verifyPasswordResetToken(t, now) => t.type = "password_reset"

\* C18 witness: a service-signed access token that verifyAccessToken still
\* accepts was presented to resetPassword and refused.
AccessTokenPresentedAsReset ==
  /\ last.op = "reset" /\ ~last.ok
  /\ last.tok \in minted /\ last.tok.type = "access"
  /\ verifyAccessToken(last.tok, now)

\* C19: authenticate and optionalAuth consult the blacklist first; a token
\* with an unexpired blacklist record goes no further (no signature check,
\* no user lookup, no user attached; authenticate answers that the token is
\* revoked), and a user is attached only when the token had no such record
\* and then passed the signature and expiry check.
BlacklistBeforeSignature ==
  last.op \in {"authenticate", "optionalAuth"} =>
    /\ Len(last.seen) >= 1 /\ last.seen[1] = "blacklist"
    /\ last.cls = "revoked" =>
         /\ last.seen = <<"blacklist">>
         /\ last.user = "none"
         /\ last.op = "authenticate" =>
              (~last.ok /\ last.res = "Token has been revoked")
    /\ last.user # "none" =>
         /\ last.cls = "clear"
         /\ last.seen = <<"blacklist", "verify", "user">>
         /\ last.tok.key = jwtSecret /\ NowSec(now) < last.tok.exp

\* C19 witness: a token with a bad signature and an unexpired blacklist
\* record was presented to authenticate and turned away as revoked.
RevokedForgeryTurnedAway ==
  /\ last.op = "authenticate" /\ last.cls = "revoked"
  /\ last.tok.key # jwtSecret /\ last.tok.type # "garbage"
  /\ last.res = "Token has been revoked"

\* C20: isRevoked(token) is true exactly when the blacklist holds a record
\* of that token with expiresAt > now.
RevokedIffLiveRecord ==
  last.op = "isBlacklisted" =>
    (last.ok <=> \E r \in blacklist : r.token = last.tok /\ r.expiresAt > now)

\* C20 witness: the record of the token has expired but is still in the
\* collection, and isRevoked answered false.
ExpiredRecordNotRevoked ==
  /\ last.op = "isBlacklisted" /\ ~last.ok
  /\ \E r \in blacklist : r.token = last.tok /\ r.expiresAt <= now

\* C21: getUserFromToken never raises; it returns null whenever the token
\* does not verify as an access token, no user has the token's subject or
\* the user lookup fails, and the user it returns is the stored user named
\* by the subject of a token that verifies
SoftLookupNeverRaises ==
  last.op = "getUser" =>
    /\ last.pc = "done"
    /\ last.cls \in {"invalid", "nouser", "fault"} =>
         last.user = "none" /\ last.res = "null"
    /\ last.user # "none" =>
         /\ last.cls = "user"
         /\ last.user = last.tok.sub
         /\ users[last.user].stored

\* C21 witness: a token that verifies names a deleted user and the lookup
\* has returned null
DeletedUserLookedUp ==
  /\ last.op = "getUser"
  /\ last.cls = "nouser"
  /\ last.user = "none"

\* the static table of what a citizen may do
CitizenTable ==
  {<<"news", "read">>, <<"feedback", "read">>, <<"feedback", "create">>,
   <<"help-request", "create">>, <<"profile", "read">>,
   <<"profile", "update">>}

\* C22: an admin has every role and may access everything; a citizen does
\* not have the admin role and canAccess answers true exactly for the pairs
\* of the table and false for every other pair, unknown resources included
RolePolicy ==
  /\ (last.op = "hasRole" /\ last.cls = "admin") => last.ok
  /\ (last.op = "hasRole" /\ last.cls = "citizen" /\ last.roles = {"admin"})
       => ~last.ok
  /\ (last.op = "canAccess" /\ last.cls = "admin") =>
       last.pc = "done" /\ last.ok
  /\ (last.op = "canAccess" /\ last.cls = "citizen") =>
       /\ last.pc = "done"
       /\ last.ok <=>
            <<last.resource, ActionOrDefault(last.action)>> \in CitizenTable

\* the stored code records of an email
CodeRecords(e) == {d \in otpCodes : d.email = ToLower(e)}

\* the access token is what verifyAccessToken accepts at the current time
LiveAccessToken(tok) ==
  tok.type = "access" /\ tok.key = jwtSecret /\ NowSec(now) < tok.exp

\* verifyCode with the stored code, answered before the code expires, and
\* authenticateRequest with the access token of a login, succeed for the
\* active user
HappyVerifyAndRequest ==
  /\ (/\ last.op = "verify"
      /\ last.cls = "match"
      /\ last.who = "active"
      /\ now < last.at) =>
       /\ last.ok
       /\ last.tok \in minted
       /\ last.tok.type = "access"
       /\ users[last.tok.sub].email = ToLower(last.email)
  /\ (/\ last.op = "authenticate"
      /\ last.tok \in minted
      /\ LiveAccessToken(last.tok)
      /\ last.cls = "clear"
      /\ UserIdCase(last.tok.sub) = "active") =>
       last.ok /\ last.user = last.tok.sub

ExpiredRecordsEventuallyPurged ==
  /\ \A i \in 1..MaxBlacklist :
       (\E r \in blacklist : r.id = i /\ r.expiresAt <= now)
         ~> ~(\E r \in blacklist : r.id = i)
  /\ \A i \in 1..MaxOtp :
       (\E d \in otpCodes : d.id = i /\ d.expiresAt <= now)
         ~> ~(\E d \in otpCodes : d.id = i)

\* C25 witness: a token was revoked and a code consumed, both have
\* expired, and neither collection holds a record any more
ExpiredRecordsGone ==
  /\ \E tok \in loggedOut : BlExpiresAt(tok) <= now
  /\ blSeq > 0
  /\ blacklist = {}
  /\ \E i \in 1..MaxOtp : okCount[i] > 0
  /\ otpCodes = {}

\* a step of the TTL monitor or of the administrative sweep
PurgeStep == TtlOtp \/ TtlBlacklist \/ cleanExpiredTokens

\* C26: a purge step taken between any two storage round trips of
\* sendCode, verifyCode, logout and authenticateRequest removes no
\* unexpired code and no unexpired blacklist record, leaves every token
\* that has an unexpired blacklist record revoked, and leaves at most one
\* unconsumed unexpired code per email; authenticateRequest never passes a
\* token that had an unexpired record at its revocation check
PurgeKeepsInvariants ==
  [][/\ PurgeStep =>
          /\ \A d \in otpCodes \ otpCodes' : d.expiresAt <= now
          /\ \A r \in blacklist \ blacklist' : r.expiresAt <= now
          /\ \A tok \in minted :
               RevokedCase(blacklist, tok, now) = "revoked" =>
                 RevokedCase(blacklist', tok, now') = "revoked"
          /\ \A e \in Emails :
               Cardinality(ActiveCodes(otpCodes', e, now')) <= 1
     /\ (last'.op = "authenticate" /\ last'.cls = "revoked") => ~last'.ok
    ]_vars

\* C26 witness: the sweep has removed an expired blacklist record while
\* an unexpired one and an unconsumed unexpired code were stored, and
\* both are still there
PurgeSparedLiveRecords ==
  /\ last.op = "clean"
  /\ last.flag
  /\ \E r \in blacklist : r.expiresAt > now
  /\ \E e \in Emails : ActiveCodes(otpCodes, e, now) # {}

\* C27: verifyCode(E, C) returns tokens only if, when it looked the code
\* up, a record stored by sendCode(E) held C unconsumed and less than five
\* minutes old, and no earlier verifyCode has consumed that record: the
\* successful call is the only one the record has paid for
LoginOnlyForOutstandingCode ==
  (last.op = "verify" /\ last.ok) =>
    /\ last.cls = "match"
    /\ ~last.flag
    /\ okCount[last.doc] = 1

\* C28: a verifyCode call that returns a failure, whatever the reason, has
\* changed no user and minted no token, and the code record it found is
\* not consumed unless a successful verifyCode consumed it: only a call
\* that returns success marks a code consumed
FailedVerifyLeavesNoTrace ==
  [][(last' # last /\ last'.op = "verify" /\ ~last'.ok) =>
       /\ users' = users
       /\ minted' = minted
       /\ \A d \in otpCodes' :
            (d.id = last'.doc /\ d.verified) => okCount'[d.id] >= 1]_vars

\* C29: logout adds at most one blacklist record, the record of the token
\* presented, and changes no other record; so the refresh token of the
\* session is not blacklisted by the logout of its access token, and a
\* refresh with a valid refresh token that has no blacklist record still
\* succeeds for an active user
LogoutRevokesOnlyPresentedToken ==
  [][/\ (last' # last /\ last'.op = "logout") =>
          /\ blacklist \subseteq blacklist'
          /\ Cardinality(blacklist' \ blacklist) <= 1
          /\ \A r \in blacklist' \ blacklist : r.token = last'.tok
          /\ otpCodes' = otpCodes /\ users' = users /\ minted' = minted
     /\ (/\ last' # last
         /\ last'.op = "refresh"
         /\ last'.cls \in {"fresh", "reused"}
         /\ last'.who = "active") =>
          last'.ok /\ last'.tok.type = "access"
    ]_vars

\* C29 witness: the access token of the session is revoked and its record
\* unexpired, and a refresh with the refresh token of the same session has
\* succeeded
RefreshAfterLogoutSucceeded ==
  /\ last.op = "refresh"
  /\ last.ok
  /\ \E r \in blacklist :
       /\ r.token \in loggedOut
       /\ r.token.type = "access"
       /\ r.token.sub = last.arg.sub
       /\ r.expiresAt > now
  /\ \A r \in blacklist : r.token # last.arg

\* the limiter has answered a request
RateAnswered == last' # last /\ last'.op = "rateLimit"

\* the request of user u opens a window: the first one, or the first after
\* resetTime
OpensWindow(u) ==
  u \notin DOMAIN userRequests \/ now > userRequests[u].resetTime

\* what the limiter does with the request it has answered: requests without
\* a user pass and change no counter; a request changes no other user's
\* counter; a request that opens a window passes with count 1 and
\* resetTime = now + windowMs; within a window a request passes and adds
\* one to the count, which never exceeds maxRequests, and every further
\* request is answered 429 and changes nothing
RateLimitRule ==
  LET u == last'.user
  IN  /\ u = "none" => last'.ok /\ userRequests' = userRequests
      /\ u # "none" =>
           /\ \A v \in DOMAIN userRequests \ {u} :
                v \in DOMAIN userRequests' /\
                userRequests'[v] = userRequests[v]
           /\ DOMAIN userRequests' \subseteq DOMAIN userRequests \cup {u}
           /\ last'.ok =>
                /\ userRequests'[u].count <= limiter.maxRequests
                /\ IF OpensWindow(u)
                     THEN userRequests'[u] =
                            [count |-> 1,
                             resetTime |-> now + limiter.windowMs]
                     ELSE userRequests'[u] =
                            [userRequests[u] EXCEPT !.count = @ + 1]
           /\ ~last'.ok =>
                /\ ~OpensWindow(u)
                /\ userRequests[u].count >= limiter.maxRequests
                /\ userRequests' = userRequests
                /\ last'.res = "Too many requests. Please try again later."
           /\ OpensWindow(u) => last'.ok

\* C30 as stated, for every maxRequests: per user at most maxRequests
\* requests pass in a window, further ones get 429 and change nothing, the
\* first request after resetTime opens a window with count 1, users do not
\* affect each other and requests without a user always pass
RateLimitPerUser == [][RateAnswered => RateLimitRule]_vars

\* C30 amended: the same for a limiter created with maxRequests >= 1
RateLimitPerUserPositive ==
  [][(RateAnswered /\ limiter.maxRequests >= 1) => RateLimitRule]_vars

\* C30 witness: a user has used up the window and the next request has
\* been answered 429 while another user's counter is in its own window
RequestRefusedInFullWindow ==
  /\ last.op = "rateLimit"
  /\ ~last.ok
  /\ limiter.maxRequests >= 1
  /\ userRequests[last.user].count = limiter.maxRequests
  /\ \E v \in DOMAIN userRequests \ {last.user} :
       userRequests[v].count < limiter.maxRequests
====
